---- MODULE Spec2Model ----
(***************************************************************************)
(* clangd "extract variable" tweak                                         *)
(* (clang-tools-extra/clangd/refactor/tweaks/ExtractVariable.cpp).         *)
(*                                                                         *)
(* One ExtractVariable instance is driven by a host that calls prepare and *)
(* apply with selections over one immutable AST snapshot.  The snapshot is *)
(* a tree of AST nodes laid out over a token sequence; source locations    *)
(* are token indices.  The selection tree, the source-location services    *)
(* and the edit set (tooling::Replacements) are collaborators of the       *)
(* tweak; everything else is translated from ExtractVariable.cpp.          *)
(***************************************************************************)
EXTENDS Integers, Sequences, FiniteSets, TLC

(***************************************************************************)
(* Bounds of the model.                                                    *)
(***************************************************************************)
\* number of operands of the generated operator chains  o1 + o2 + ... + on
ChainLen == 4
\* number of prepare/apply calls the host makes on one instance
MaxCalls == 3

(***************************************************************************)
(* AST snapshots.  A program is written as a nested term: a node has a     *)
(* kind, attributes, and a sequence of items, each one of its own tokens   *)
(* or a child node, in source order.  A term is kept as the sequence of    *)
(* its events in source order: the opening of a node, a token, the closing *)
(* of a node.                                                              *)
(***************************************************************************)
Tk(s) == <<[t |-> "tok", s |-> s]>>

NodeDefaults ==
  [t |-> "open", type |-> "none", op |-> "none", decl |-> "none",
   role |-> "none", fid |-> "main", flags |-> {}]

\* the events of the items of a node, one after the other (a node of the
\* snapshots has at most eight items)
Join(items) ==
  LET item(i) == IF i <= Len(items) THEN items[i] ELSE <<>>
  IN  item(1) \o item(2) \o item(3) \o item(4) \o
      item(5) \o item(6) \o item(7) \o item(8)

Nd(kind, items, attrs) ==
  <<attrs @@ [kind |-> kind] @@ NodeDefaults>> \o Join(items) \o <<[t |-> "close"]>>

As(role, n) == [n EXCEPT ![1].role = role]
Flag(f, n) == [n EXCEPT ![1].flags = @ \cup {f}]

\* clang::Expr subclasses that occur in the snapshots
ExprKinds ==
  {"BinaryOperator", "CXXOperatorCallExpr", "CallExpr", "DeclRefExpr",
   "MemberExpr", "CXXThisExpr", "ImplicitCastExpr", "IntegerLiteral",
   "LambdaExpr", "ObjCPropertyRefExpr", "ObjCSubscriptRefExpr", "ParenExpr"}

\* clang::Stmt subclasses that are not expressions
PlainStmtKinds ==
  {"AttributedStmt", "CompoundStmt", "CXXForRangeStmt", "DeclStmt", "DoStmt",
   "ForStmt", "IfStmt", "ReturnStmt", "WhileStmt", "SwitchStmt", "CaseStmt",
   "DefaultStmt", "LabelStmt"}

StmtKinds == ExprKinds \cup PlainStmtKinds

\* clang::VarDecl and its subclass ParmVarDecl
VarDeclKinds == {"VarDecl", "ParmVarDecl"}

NoAttr == [role |-> "none"]

Lit(s) == Nd("IntegerLiteral", <<Tk(s)>>, [type |-> "int"])
Ref(x) == Nd("DeclRefExpr", <<Tk(x)>>, [type |-> "int", decl |-> x])
Cast(e) == Nd("ImplicitCastExpr", <<e>>, [type |-> e[1].type])
\* an lvalue-to-rvalue use of a variable:  ImplicitCastExpr(DeclRefExpr)
Use(x) == Cast(Ref(x))
Bin(Opcode, sym, l, r) ==
  Nd("BinaryOperator", <<As("lhs", l), Tk(sym), As("rhs", r)>>,
     [type |-> "int", op |-> Opcode])
\* a + b on a class type:  CXXOperatorCallExpr(arg0, callee operator+, arg1)
OpCall(Opcode, sym, l, r) ==
  Nd("CXXOperatorCallExpr",
     <<As("arg0", l),
       As("callee", Cast(Nd("DeclRefExpr", <<Tk(sym)>>,
                            [type |-> "int", decl |-> "operator"]))),
       As("arg1", r)>>,
     [type |-> "int", op |-> Opcode, flags |-> {"infix"}])
Call1(f, ty, arg) ==
  Nd("CallExpr", <<As("callee", Cast(Ref(f))), Tk("("), As("arg", arg), Tk(")")>>,
     [type |-> ty])
Call0(f, ty) ==
  Nd("CallExpr", <<As("callee", Cast(Ref(f))), Tk("("), Tk(")")>>, [type |-> ty])
Var(x, init) ==
  Nd("VarDecl", <<Tk("int"), Tk(x), Tk("="), As("init", init)>>, [decl |-> x])
DeclS(x, init) == Nd("DeclStmt", <<Var(x, init), Tk(";")>>, NoAttr)
Block(items) == Nd("CompoundStmt", <<Tk("{"), Join(items), Tk("}")>>, NoAttr)
Func(body) ==
  Nd("TranslationUnitDecl",
     <<Tk("globals"),
       Nd("FunctionDecl", <<Tk("void"), Tk("fn"), Tk("("), Tk(")"), body>>, NoAttr)>>,
     NoAttr)

(***************************************************************************)
(* Layout: the nodes of a term are numbered in pre-order (node 1 is the    *)
(* translation unit) and laid out over token indices.  Every node gets its *)
(* parent, its AST children, the token range [b, e) it spans and the set   *)
(* of tokens that are its own (not a child's).                             *)
(***************************************************************************)
\* the members of a set of numbers, in increasing order
Sorted(K) ==
  [r \in 1..Cardinality(K) |->
     CHOOSE x \in K : Cardinality({y \in K : y < x}) = r - 1] \o <<>>

Layout(E) ==
  LET n == Len(E)
      Opens == {i \in 1..n : E[i].t = "open"}
      \* the nesting depth after event j, and the tokens before event j
      depth == [j \in 1..n |->
                  Cardinality({i \in 1..j : E[i].t = "open"})
                  - Cardinality({i \in 1..j : E[i].t = "close"})] \o <<>>
      before == [j \in 1..n |->
                   Cardinality({i \in 1..(j - 1) : E[i].t = "tok"})] \o <<>>
      \* the event that closes the node opened at i (0 elsewhere)
      close == [i \in 1..n |->
                  IF i \notin Opens THEN 0
                  ELSE CHOOSE j \in (i + 1)..n :
                         /\ E[j].t = "close" /\ depth[j] = depth[i] - 1
                         /\ \A m \in (i + 1)..(j - 1) : depth[m] >= depth[i]]
               \o <<>>
      \* the innermost node that encloses event j (0 for the root)
      encl == [j \in 1..n |->
                 LET around == {i \in Opens : i < j /\ j < close[i]}
                 IN  IF around = {} THEN 0
                     ELSE CHOOSE i \in around : \A m \in around : m <= i]
              \o <<>>
      pos == Sorted(Opens)
      id == [i \in 1..n |-> Cardinality({m \in Opens : m <= i})] \o <<>>
  IN  [k \in 1..Len(pos) |->
         LET i == pos[k]
         IN  [kind |-> E[i].kind, type |-> E[i].type, op |-> E[i].op,
              decl |-> E[i].decl, role |-> E[i].role, fid |-> E[i].fid,
              flags |-> E[i].flags,
              parent |-> IF encl[i] = 0 THEN 0 ELSE id[encl[i]],
              kids |-> Sorted({id[j] : j \in {m \in Opens : encl[m] = i}}),
              b |-> before[i], e |-> before[close[i]],
              own |-> {before[j] : j \in {m \in 1..n : E[m].t = "tok"
                                                      /\ encl[m] = i}}]]
      \o <<>>

\* the source text of a term, token by token
Tokens(E) ==
  LET toks == Sorted({j \in 1..Len(E) : E[j].t = "tok"})
  IN  [k \in 1..Len(toks) |-> E[toks[k]].s] \o <<>>

\* A snapshot: the laid-out tree, its source text, the language mode, and
\* the window of tokens the host's selections are drawn from.
Parsed(name, nodes, text, cpp11) ==
  LET w == CHOOSE n \in 1..Len(nodes) : "window" \in nodes[n].flags
  IN  [name |-> name, nodes |-> nodes, text |-> text,
       CPlusPlus11 |-> cpp11, lo |-> nodes[w].b, hi |-> nodes[w].e]

Snapshot(name, root, cpp11) == Parsed(name, Layout(root), Tokens(root), cpp11)

Win(n) == Flag("window", n)

(***************************************************************************)
(* The snapshots the host works on.                                        *)
(***************************************************************************)
\* 1 + 2 + ... + k, as the parser builds it: ((1 + 2) + 3) + ... + k
\* the spelling of the k-th literal, variable and object operand
LitNames == <<"1", "2", "3", "4", "5", "6", "7", "8">>
VarNames == <<"v1", "v2", "v3", "v4", "v5", "v6", "v7", "v8">>
ObjNames == <<"s1", "s2", "s3", "s4", "s5", "s6", "s7", "s8">>

RECURSIVE ChainLit(_)
ChainLit(k) ==
  IF k = 1 THEN Lit("1") ELSE Bin("Add", "+", ChainLit(k - 1), Lit(LitNames[k]))

\* v1 + v2 + ... + vk over int variables (each use is an implicit cast)
RECURSIVE ChainUse(_)
ChainUse(k) ==
  IF k = 1 THEN Use("v1")
  ELSE Bin("Add", "+", ChainUse(k - 1), Use(VarNames[k]))

\* s1 + s2 + ... + sk over a class type with an overloaded operator+
RECURSIVE ChainOpCall(_)
ChainOpCall(k) ==
  IF k = 1 THEN Ref("s1")
  ELSE OpCall("Add", "+", ChainOpCall(k - 1), Ref(ObjNames[k]))

\* { int x = 1 + 2 + 3 + 4; }
ProgChainInit == Func(Block(<<DeclS("x", Win(ChainLit(ChainLen)))>>))

\* { v1 + v2 + v3; }
ProgChainStmt == Func(Block(<<Win(ChainUse(ChainLen - 1)), Tk(";")>>))

\* { S x = s1 + s2 + s3; }
ProgChainOpCall == Func(Block(<<DeclS("x", Win(ChainOpCall(ChainLen - 1)))>>))

\* { x = v1 + v2; }
ProgAssign ==
  Func(Block(<<Win(Bin("Assign", "=", Ref("x"), ChainUse(2))), Tk(";")>>))

\* { int x = 5 + 4 * 3; }
ProgMixed ==
  Func(Block(<<DeclS("x", Win(Bin("Add", "+", Lit("5"),
                                  Bin("Mul", "*", Lit("4"), Lit("3")))))>>))

\* { int y = 1; f(y + 1); }
ProgScopeBlock ==
  Func(Block(<<DeclS("y", Lit("1")),
               Win(Call1("f", "void", Bin("Add", "+", Use("y"), Lit("1")))),
               Tk(";")>>))

\* { for (int i = 0; ; ) h(i + 1); }
ProgScopeFor ==
  Func(Block(<<
    Nd("ForStmt",
       <<Tk("for"), Tk("("), As("init", DeclS("i", Lit("0"))), Tk(";"), Tk(")"),
         As("body", Win(Call1("h", "int", Bin("Add", "+", Use("i"), Lit("1"))))),
         Tk(";")>>, NoAttr)>>))

\* #define BLOCK(x) { x; }
\* { if (c) BLOCK(h(a + 1)) }
ProgMacroBlock ==
  Func(Block(<<
    Nd("IfStmt",
       <<Tk("if"), Tk("("), As("cond", Use("c")), Tk(")"),
         As("then",
            Flag("macroBegin",
              Nd("CompoundStmt",
                 <<Tk("BLOCK"), Tk("("),
                   Win(Flag("macroBegin",
                         Call1("h", "int", Bin("Add", "+", Use("a"), Lit("1"))))),
                   Tk(")")>>, NoAttr)))>>, NoAttr)>>))

\* #define ID(x) x
\* { ID(h(a + 1)); }
ProgMacroArg ==
  Func(Block(<<Tk("ID"), Tk("("),
               Win(Flag("macroBegin",
                     Call1("h", "int", Bin("Add", "+", Use("a"), Lit("1"))))),
               Tk(")"), Tk(";")>>))

\* { g(); h(1); }        void g(); int h(int);
ProgCalls ==
  Func(Win(Block(<<Call0("g", "void"), Tk(";"),
                   Call1("h", "int", Lit("1")), Tk(";")>>)))

\* { while (c) h(a + 1); }
ProgWhile ==
  Func(Block(<<
    Nd("WhileStmt",
       <<Tk("while"), Tk("("), As("cond", Use("c")), Tk(")"),
         As("body", Win(Call1("h", "int", Bin("Add", "+", Use("a"), Lit("1"))))),
         Tk(";")>>, NoAttr)>>))

\* { switch (a) { case 1: h(a + 1); } }
ProgSwitch ==
  Func(Block(<<
    Nd("SwitchStmt",
       <<Tk("switch"), Tk("("), As("cond", Use("a")), Tk(")"),
         As("body", Block(<<
           Nd("CaseStmt",
              <<Tk("case"), As("lhs", Lit("1")), Tk(":"),
                As("sub", Win(Call1("h", "int",
                                    Bin("Add", "+", Use("a"), Lit("1")))))>>,
              NoAttr),
           Tk(";")>>))>>, NoAttr)>>))

\* { return a + 1; }
ProgReturn ==
  Func(Block(<<Nd("ReturnStmt",
                  <<Tk("return"), Win(Bin("Add", "+", Use("a"), Lit("1"))),
                    Tk(";")>>, NoAttr)>>))

\* { auto l = [](int p = a + 1) {}; }      a is a global
ProgDefaultArg ==
  Func(Block(<<
    DeclS("l",
      Nd("LambdaExpr",
         <<Tk("["), Tk("]"), Tk("("),
           As("param",
              Nd("ParmVarDecl",
                 <<Tk("int"), Tk("p"), Tk("="),
                   As("init", Win(Bin("Add", "+", Use("a"), Lit("1"))))>>,
                 [decl |-> "p"])),
           Tk(")"), As("body", Block(<<>>))>>,
         [type |-> "class"]))>>))

\* Objective-C, no C++11:  { self.p += 1; }  a compound property reference
ProgObjCSetter ==
  Func(Block(<<
    Nd("BinaryOperator",
       <<As("lhs", Win(Nd("ObjCPropertyRefExpr",
                          <<As("base", Use("self")), Tk("."), Tk("p")>>,
                          [type |-> "pseudo",
                           flags |-> {"messagingSetter", "messagingGetter"}]))),
         Tk("+="), As("rhs", Lit("1"))>>,
       [type |-> "pseudo", op |-> "AddAssign"]),
    Tk(";")>>))

\* Objective-C, no C++11:  { h(self.p); }  with self.p a property reference
ProgObjC(propFlags) ==
  Func(Block(<<
    Call1("h", "int",
          Win(Nd("ObjCPropertyRefExpr",
                 <<As("base", Use("self")), Tk("."), Tk("p")>>,
                 [type |-> "pseudo", flags |-> propFlags]))),
    Tk(";")>>))

\* Objective-C, no C++11:  { h(d[1]); }  with d[1] a subscript reference
ProgObjCSubscript ==
  Func(Block(<<
    Call1("h", "int",
          Win(Nd("ObjCSubscriptRefExpr",
                 <<As("base", Use("d")), Tk("["), As("key", Lit("1")), Tk("]")>>,
                 [type |-> "pseudo"]))),
    Tk(";")>>))

\* { auto l = [x = a + 1] { }; }      a is a global
ProgLambdaInit ==
  Func(Block(<<
    DeclS("l",
      Win(Nd("LambdaExpr",
             <<Tk("["),
               As("capture",
                  Nd("VarDecl",
                     <<Tk("x"), Tk("="),
                       As("init", Bin("Add", "+", Use("a"), Lit("1")))>>,
                     [decl |-> "x", flags |-> {"initCapture"}])),
               Tk("]"), As("body", Block(<<>>))>>,
             [type |-> "class"])))>>))

\* { int x = h(1); }
ProgCallInit == Func(Block(<<DeclS("x", Win(Call1("h", "int", Lit("1"))))>>))

\* { x = h(1); }
ProgAssignCall ==
  Func(Block(<<Bin("Assign", "=", Ref("x"), Win(Call1("h", "int", Lit("1")))),
               Tk(";")>>))

\* { x = 1 + 2; }
ProgAssignLit ==
  Func(Block(<<Win(Bin("Assign", "=", Ref("x"), ChainLit(2))), Tk(";")>>))

\* { if (c + 1) h(); else h(); }        int h();
ProgIfElse ==
  Func(Block(<<
    Win(Nd("IfStmt",
           <<Tk("if"), Tk("("),
             As("cond", Bin("Add", "+", Use("c"), Lit("1"))), Tk(")"),
             As("then", Call0("h", "int")), Tk(";"), Tk("else"),
             As("else", Call0("h", "int"))>>, NoAttr)),
    Tk(";")>>))

\* { x += 1; s1 = s2; }        s1, s2 of a class with an overloaded operator=
ProgAssignOps ==
  Func(Win(Block(<<Nd("BinaryOperator",
                      <<As("lhs", Ref("x")), Tk("+="), As("rhs", Lit("1"))>>,
                      [type |-> "int", op |-> "AddAssign"]),
                   Tk(";"),
                   OpCall("Assign", "=", Ref("s1"), Ref("s2")),
                   Tk(";")>>)))

\* inside a member function:  { return m + f(); }   m a field, f a method
ProgMember ==
  Func(Block(<<
    Nd("ReturnStmt",
       <<Tk("return"),
         Win(Bin("Add", "+",
                 Cast(Nd("MemberExpr",
                         <<As("base", Nd("CXXThisExpr", <<>>, [type |-> "class"])),
                           Tk("m")>>,
                         [type |-> "int", decl |-> "m",
                          flags |-> {"implicitThis"}])),
                 Nd("CallExpr",
                    <<As("callee",
                         Nd("MemberExpr",
                            <<As("base",
                                 Nd("CXXThisExpr", <<>>, [type |-> "class"])),
                              Tk("f")>>,
                            [type |-> "bound", decl |-> "f",
                             flags |-> {"implicitThis"}])),
                      Tk("("), Tk(")")>>,
                    [type |-> "int"]))),
         Tk(";")>>, NoAttr)>>))

\* { auto l = [&c] { g; }; }        g is a global
ProgLambdaCapture ==
  Func(Block(<<
    DeclS("l",
      Win(Nd("LambdaExpr",
             <<Tk("["), Tk("&"), As("capture", Ref("c")), Tk("]"),
               As("body", Block(<<Use("g"), Tk(";")>>))>>,
             [type |-> "class"])))>>))

\* { int b = 0; auto l = [&] { b; }; }     b is captured implicitly: the
\* closure has a capture of b that is not written in the source
ProgLambdaImplicit ==
  Func(Block(<<
    DeclS("b", Lit("0")),
    DeclS("l",
      Win(Nd("LambdaExpr",
             <<Tk("["), Tk("&"),
               As("capture",
                  Flag("implicit",
                       Nd("DeclRefExpr", <<>>, [type |-> "int", decl |-> "b"]))),
               Tk("]"),
               As("body", Block(<<Use("b"), Tk(";")>>))>>,
             [type |-> "class"])))>>))

\* { auto l = []<int N = k>(int p = d) [[assume(t)]] -> decltype(r) { }; }
\* with the template parameter, the parameter, the attribute and the return
\* type each written as the name they refer to
ProgLambdaSignature ==
  Func(Block(<<
    DeclS("l",
      Win(Nd("LambdaExpr",
             <<Tk("["), Tk("]"),
               As("tparam", Nd("NonTypeTemplateParmDecl", <<Ref("k")>>,
                               [decl |-> "N"])),
               As("param", Nd("ParmVarDecl", <<Tk("p"), As("init", Ref("d"))>>,
                              [decl |-> "p"])),
               As("attr", Ref("t")),
               As("rettype", Ref("r")),
               As("body", Block(<<>>))>>,
             [type |-> "class"])))>>))

\* { int v = [] { int z = 1; z; }(); }     an immediately invoked closure
ProgLambdaInvoked ==
  Func(Block(<<
    DeclS("v",
      Win(Nd("CXXOperatorCallExpr",
             <<As("arg0",
                  Nd("LambdaExpr",
                     <<Tk("["), Tk("]"),
                       As("body", Block(<<DeclS("z", Lit("1")),
                                          Use("z"), Tk(";")>>))>>,
                     [type |-> "class"])),
               As("callee",
                  Cast(Flag("lambdaCallOperator",
                            Nd("DeclRefExpr", <<>>,
                               [type |-> "int", decl |-> "operator()"])))),
               Tk("("), Tk(")")>>,
             [type |-> "int"])))>>))

\* #define M 3
\* { int x = 1 + 2 + M; }
ProgChainMacro ==
  Func(Block(<<
    DeclS("x",
      Win(Bin("Add", "+", ChainLit(2),
              Nd("IntegerLiteral", <<Tk("M")>>,
                 [type |-> "int", fid |-> "macro M"]))))>>))

\* { int x = 4 * 3 + 5; }
ProgMixedLeft ==
  Func(Block(<<DeclS("x", Win(Bin("Add", "+",
                                  Bin("Mul", "*", Lit("4"), Lit("3")),
                                  Lit("5"))))>>))

\* { int x = 1 - 2 - 3; }
ProgChainSub ==
  Func(Block(<<DeclS("x", Win(Bin("Sub", "-",
                                  Bin("Sub", "-", Lit("1"), Lit("2")),
                                  Lit("3"))))>>))

Snapshots ==
  << Snapshot("chain-init", ProgChainInit, TRUE),
     Snapshot("chain-stmt", ProgChainStmt, TRUE),
     Snapshot("chain-opcall", ProgChainOpCall, TRUE),
     Snapshot("assign", ProgAssign, TRUE),
     Snapshot("mixed", ProgMixed, TRUE),
     Snapshot("mixed-c", ProgMixed, FALSE),
     Snapshot("scope-block", ProgScopeBlock, TRUE),
     Snapshot("scope-for", ProgScopeFor, TRUE),
     Snapshot("macro-block", ProgMacroBlock, TRUE),
     Snapshot("macro-arg", ProgMacroArg, TRUE),
     Snapshot("calls", ProgCalls, TRUE),
     Snapshot("while", ProgWhile, TRUE),
     Snapshot("switch", ProgSwitch, TRUE),
     Snapshot("return", ProgReturn, TRUE),
     Snapshot("default-arg", ProgDefaultArg, TRUE),
     Snapshot("objc-setter", ProgObjCSetter, FALSE),
     Snapshot("objc-getter", ProgObjC({"messagingGetter", "explicitProperty"}), FALSE),
     Snapshot("objc-implicit-getter", ProgObjC({"messagingGetter"}), FALSE),
     Snapshot("objc-subscript", ProgObjCSubscript, FALSE),
     Snapshot("lambda-init", ProgLambdaInit, TRUE),
     Snapshot("call-init", ProgCallInit, TRUE),
     Snapshot("assign-call", ProgAssignCall, TRUE),
     Snapshot("assign-lit", ProgAssignLit, TRUE),
     Snapshot("if-else", ProgIfElse, TRUE),
     Snapshot("assign-ops", ProgAssignOps, TRUE),
     Snapshot("member", ProgMember, TRUE),
     Snapshot("lambda-capture", ProgLambdaCapture, TRUE),
     Snapshot("lambda-implicit", ProgLambdaImplicit, TRUE),
     Snapshot("lambda-signature", ProgLambdaSignature, TRUE),
     Snapshot("lambda-invoked", ProgLambdaInvoked, TRUE),
     Snapshot("chain-macro", ProgChainMacro, TRUE),
     Snapshot("mixed-left", ProgMixedLeft, TRUE),
     Snapshot("chain-sub", ProgChainSub, TRUE) >>


\* The selections the host can make on a snapshot: the token ranges [b, e)
\* inside its window, and an empty selection.
Selections(sn) ==
  {s \in (sn.lo..sn.hi) \X (sn.lo..sn.hi) :
     s[1] < s[2] \/ (s[1] = s[2] /\ s[1] = sn.lo)}

(***************************************************************************)
(* The selection tree (Selection.h), over the nodes A of a snapshot and a  *)
(* selection S = <<begin, end>>.  A node's coverage is decided by its own  *)
(* tokens; the tree holds the nodes that are selected or have a selected   *)
(* descendant.  The null node is 0.                                        *)
(***************************************************************************)
Selected(A, S, n) ==
  LET hit == {t \in A[n].own : S[1] <= t /\ t < S[2]}
  IN  IF hit = {} THEN "Unselected"
      ELSE IF hit = A[n].own THEN "Complete" ELSE "Partial"

RECURSIVE InTree(_, _, _)
InTree(A, S, n) ==
  \/ Selected(A, S, n) # "Unselected"
  \/ \E i \in 1..Len(A[n].kids) : InTree(A, S, A[n].kids[i])

\* Node::Children: the children that are in the tree, in source order
Children(A, S, n) ==
  LET keep(c) == InTree(A, S, c) IN SelectSeq(A[n].kids, keep)

\* Node::Parent
Parent(A, n) == A[n].parent

\* SelectionTree::commonAncestor: descend from the root while the node is
\* unselected and has a single child; the root itself counts as no node
RECURSIVE Descend(_, _, _)
Descend(A, S, n) ==
  IF Len(Children(A, S, n)) = 1 /\ Selected(A, S, n) = "Unselected"
  THEN Descend(A, S, Children(A, S, n)[1])
  ELSE n
commonAncestor(A, S) ==
  LET anc == Descend(A, S, 1) IN IF anc # 1 THEN anc ELSE 0

\* ASTNode.getSourceRange(): begin of the first and begin of the last token
getSourceRange(A, n) == [b |-> A[n].b, e |-> A[n].e - 1]

\* toHalfOpenFileRange: the file range [b, e) ending after the last token
toHalfOpenFileRange(r) == [b |-> r.b, e |-> r.e + 1]

\* Node::outerImplicit: the outermost ancestor-or-self with the same range
RECURSIVE outerImplicit(_, _)
outerImplicit(A, n) ==
  IF Parent(A, n) # 0 /\ getSourceRange(A, Parent(A, n)) = getSourceRange(A, n)
  THEN outerImplicit(A, Parent(A, n))
  ELSE n

\* Node::ignoreImplicit: the innermost only-child chain with the same range
RECURSIVE ignoreImplicit(_, _, _)
ignoreImplicit(A, S, n) ==
  LET ch == Children(A, S, n)
  IN  IF Len(ch) = 1 /\ getSourceRange(A, ch[1]) = getSourceRange(A, n)
      THEN ignoreImplicit(A, S, ch[1])
      ELSE n

\* ASTNode.get<T>() is non-null
IsExpr(A, n) == n # 0 /\ A[n].kind \in ExprKinds
IsStmt(A, n) == n # 0 /\ A[n].kind \in StmtKinds
IsVarDecl(A, n) == n # 0 /\ A[n].kind \in VarDeclKinds

(***************************************************************************)
(* Declarations.  A referenced name is declared by the VarDecl/ParmVarDecl *)
(* node of that name when the snapshot has one, and outside the function   *)
(* (token 0) otherwise; "builtin" has no source location.                  *)
(***************************************************************************)
DeclRange(A, d) ==
  LET here == {n \in 1..Len(A) : A[n].kind \in VarDeclKinds /\ A[n].decl = d}
  IN  IF here # {}
      THEN LET n == CHOOSE n \in here : TRUE
           IN  [valid |-> TRUE, b |-> A[n].b, e |-> A[n].e - 1]
      ELSE [valid |-> d # "builtin", b |-> 0, e |-> 0]

\* SourceManager::isPointWithin
isPointWithin(loc, start, end) == start <= loc /\ loc <= end

(***************************************************************************)
(* computeReferencedDecls: the DeclRefExprs under an expression, in        *)
(* traversal order.  A lambda is entered only through its captures,        *)
(* requires-clause, template parameters, declared return type, parameters  *)
(* and attributes.                                                         *)
(***************************************************************************)
RECURSIVE Traverse(_, _), TraverseAll(_, _, _), TraverseRole(_, _, _, _)
TraverseAll(A, kids, i) ==
  IF i > Len(kids) THEN <<>>
  ELSE Traverse(A, kids[i]) \o TraverseAll(A, kids, i + 1)
TraverseRole(A, kids, i, role) ==
  IF i > Len(kids) THEN <<>>
  ELSE (IF A[kids[i]].role = role THEN Traverse(A, kids[i]) ELSE <<>>)
       \o TraverseRole(A, kids, i + 1, role)
\* FindDeclRefsVisitor::VisitDeclRefExpr
VisitDeclRefExpr(A, n) ==
  IF "lambdaCallOperator" \in A[n].flags THEN <<>> ELSE <<A[n].decl>>
\* A variant of TraverseLambdaExpr that also walks the body.
TraverseLambdaExprWithBody(A, n) ==
  TraverseRole(A, A[n].kids, 1, "capture")
  \o TraverseRole(A, A[n].kids, 1, "param")
  \o TraverseRole(A, A[n].kids, 1, "body")

\* FindDeclRefsVisitor::TraverseLambdaExpr
TraverseLambdaExpr(A, n) ==
  TraverseRole(A, A[n].kids, 1, "capture")
  \o TraverseRole(A, A[n].kids, 1, "requires")
  \o TraverseRole(A, A[n].kids, 1, "tparam")
  \o TraverseRole(A, A[n].kids, 1, "rettype")
  \o TraverseRole(A, A[n].kids, 1, "param")
  \o TraverseRole(A, A[n].kids, 1, "attr")
Traverse(A, n) ==
  IF A[n].kind = "LambdaExpr" THEN TraverseLambdaExpr(A, n)
  ELSE (IF A[n].kind = "DeclRefExpr" THEN VisitDeclRefExpr(A, n) ELSE <<>>)
       \o TraverseAll(A, A[n].kids, 1)
computeReferencedDecls(A, Expr) == Traverse(A, Expr)

(***************************************************************************)
(* computeVariableType.  "null" is the null QualType.                      *)
(***************************************************************************)
computeVariableType(A, CPlusPlus11, Expr) ==
  IF CPlusPlus11 THEN "auto"
  ELSE IF A[Expr].type = "pseudo"
            /\ A[Expr].kind = "ObjCPropertyRefExpr"
            /\ "messagingSetter" \in A[Expr].flags
       THEN "null"
  ELSE IF A[Expr].type = "pseudo"
            /\ A[Expr].kind = "ObjCPropertyRefExpr"
            /\ "messagingGetter" \in A[Expr].flags
       THEN IF "explicitProperty" \in A[Expr].flags
            THEN "id _Nullable"        \* the declared property type
            ELSE "int"                 \* the getter's return type
  ELSE IF A[Expr].type = "pseudo" /\ A[Expr].kind # "ObjCPropertyRefExpr"
       THEN "null"
  ELSE A[Expr].type

\* AttributedType::stripOuterNullability
stripOuterNullability(T) == IF T = "id _Nullable" THEN "id" ELSE T

(***************************************************************************)
(* ExtractionContext::exprIsValidOutside                                   *)
(***************************************************************************)
\* A variant that also refuses a scope when a referenced declaration lies
\* anywhere before the end of the scope.
exprIsValidOutsideOnlyAfter(A, ReferencedDecls, Scope) ==
  LET ScopeEnd == getSourceRange(A, Scope).e
  IN  \A i \in 1..Len(ReferencedDecls) :
        LET D == DeclRange(A, ReferencedDecls[i])
        IN  ~(D.valid /\ D.b <= ScopeEnd /\ D.e <= ScopeEnd)

exprIsValidOutside(A, ReferencedDecls, Scope) ==
  LET ScopeBegin == getSourceRange(A, Scope).b
      ScopeEnd == getSourceRange(A, Scope).e
  IN  \A i \in 1..Len(ReferencedDecls) :
        LET D == DeclRange(A, ReferencedDecls[i])
        IN  ~(/\ D.valid
              /\ isPointWithin(D.b, ScopeBegin, ScopeEnd)
              /\ isPointWithin(D.e, ScopeBegin, ScopeEnd))

(***************************************************************************)
(* ExtractionContext::computeInsertionPoint                                *)
(***************************************************************************)
\* A variant of CanExtractOutside that lets the walk pass any statement.
CanExtractOutsideAnyStmt(A, InsertionPoint) ==
  IF IsStmt(A, InsertionPoint)
  THEN IF IsExpr(A, InsertionPoint)
       THEN A[Parent(A, InsertionPoint)].kind # "ParmVarDecl"
       ELSE TRUE
  ELSE IsVarDecl(A, InsertionPoint)

CanExtractOutside(A, InsertionPoint) ==
  IF IsStmt(A, InsertionPoint)
  THEN IF IsExpr(A, InsertionPoint)
       THEN A[Parent(A, InsertionPoint)].kind # "ParmVarDecl"
       ELSE A[InsertionPoint].kind \in
              {"AttributedStmt", "CompoundStmt", "CXXForRangeStmt", "DeclStmt",
               "DoStmt", "ForStmt", "IfStmt", "ReturnStmt", "WhileStmt"}
  ELSE IsVarDecl(A, InsertionPoint)

RECURSIVE InsertionWalk(_, _, _)
InsertionWalk(A, ReferencedDecls, CurNode) ==
  IF ~(Parent(A, CurNode) # 0 /\ CanExtractOutside(A, CurNode)) THEN 0
  ELSE LET CurInsertionPoint == IF IsStmt(A, CurNode) THEN CurNode ELSE 0
           CurParent == Parent(A, CurNode)
       IN  IF CurInsertionPoint # 0
              /\ ~exprIsValidOutside(A, ReferencedDecls, CurInsertionPoint)
           THEN 0
           ELSE IF IsStmt(A, CurParent) /\ A[CurParent].kind = "CompoundStmt"
                THEN IF "macroBegin" \in A[CurParent].flags
                     THEN InsertionWalk(A, ReferencedDecls, CurParent)
                     ELSE CurInsertionPoint
                ELSE InsertionWalk(A, ReferencedDecls, CurParent)

\* A variant of computeInsertionPoint that walks up without looking at the
\* referenced declarations.
computeInsertionPointUnchecked(A, ReferencedDecls, ExprNode) ==
  InsertionWalk(A, <<>>, ExprNode)

computeInsertionPoint(A, ReferencedDecls, ExprNode) ==
  InsertionWalk(A, ReferencedDecls, ExprNode)

(***************************************************************************)
(* ExtractionContext::ExtractionContext.  Tree is the selection whose tree *)
(* ExprNode points into.                                                   *)
(***************************************************************************)
\* A variant of the constructor that leaves the flag as the insertion point
\* set it, whatever computeVariableType returns.
ExtractionContextIgnoringType(A, CPlusPlus11, Tree, Node) ==
  LET ReferencedDecls == computeReferencedDecls(A, Node)
      InsertionPoint == computeInsertionPoint(A, ReferencedDecls, Node)
      VarType == computeVariableType(A, CPlusPlus11, Node)
  IN  [held |-> TRUE, Tree |-> Tree, ExprNode |-> Node, Expr |-> Node,
       ReferencedDecls |-> ReferencedDecls,
       InsertionPoint |-> InsertionPoint,
       VarType |-> IF VarType = "null" THEN VarType
                   ELSE stripOuterNullability(VarType),
       Extractable |-> InsertionPoint # 0]

ExtractionContext(A, CPlusPlus11, Tree, Node) ==
  LET ReferencedDecls == computeReferencedDecls(A, Node)
      InsertionPoint == computeInsertionPoint(A, ReferencedDecls, Node)
      VarType == computeVariableType(A, CPlusPlus11, Node)
  IN  [held |-> TRUE, Tree |-> Tree, ExprNode |-> Node, Expr |-> Node,
       ReferencedDecls |-> ReferencedDecls,
       InsertionPoint |-> InsertionPoint,
       VarType |-> IF VarType = "null" THEN VarType
                   ELSE stripOuterNullability(VarType),
       Extractable |-> IF VarType = "null" THEN FALSE ELSE InsertionPoint # 0]

\* std::unique_ptr<ExtractionContext> Target holding nothing
NoTarget ==
  [held |-> FALSE, Tree |-> <<0, 0>>, ExprNode |-> 0, Expr |-> 0,
   ReferencedDecls |-> <<>>, InsertionPoint |-> 0, VarType |-> "null",
   Extractable |-> FALSE]

(***************************************************************************)
(* ParsedBinaryOperator                                                    *)
(***************************************************************************)
NotParsed == [ok |-> FALSE, Kind |-> "none", ExprLoc |-> "main",
              SelectedOperands |-> <<>>]

\* ParsedBinaryOperator::parse
parse(A, S, N) ==
  IF IsExpr(A, N) /\ A[N].kind = "BinaryOperator"
  THEN [ok |-> TRUE, Kind |-> A[N].op, ExprLoc |-> A[N].fid,
        SelectedOperands |-> Children(A, S, N)]
  ELSE IF IsExpr(A, N) /\ A[N].kind = "CXXOperatorCallExpr"
       THEN IF "infix" \notin A[N].flags THEN NotParsed
            ELSE LET isArg(c) == A[c].role \in {"arg0", "arg1"}
                 IN  [ok |-> TRUE, Kind |-> A[N].op, ExprLoc |-> A[N].fid,
                      SelectedOperands |-> SelectSeq(Children(A, S, N), isArg)]
       ELSE NotParsed

\* A variant of associative that takes every operator for associative.
associativeAny(Op) == Op.Kind # "none"

\* ParsedBinaryOperator::associative
associative(Op) ==
  Op.Kind \in {"Add", "Mul", "And", "Or", "Xor", "LAnd", "LOr"}

\* ParsedBinaryOperator::crossesMacroBoundary
crossesMacroBoundary(A, Op) ==
  \E i \in 1..Len(Op.SelectedOperands) :
    A[Op.SelectedOperands[i]].fid # Op.ExprLoc

\* BinaryOperator::isAssignmentOp
isAssignmentOp(Kind) ==
  Kind \in {"Assign", "MulAssign", "DivAssign", "RemAssign", "AddAssign",
            "SubAssign", "ShlAssign", "ShrAssign", "AndAssign", "XorAssign",
            "OrAssign"}

(***************************************************************************)
(* getBinaryOperatorRange.  An invalid SourceRange has valid = FALSE.      *)
(***************************************************************************)
InvalidRange == [valid |-> FALSE, b |-> 0, e |-> 0]

\* the loop that pushes Start down the left edge of the operator tree
RECURSIVE PushDownStart(_, _, _, _)
PushDownStart(A, S, Start, OuterOp) ==
  LET Op == parse(A, S, ignoreImplicit(A, S, Start))
  IN  IF Op.ok /\ Op.Kind = OuterOp /\ ~crossesMacroBoundary(A, Op)
         \* the code asserts that an operator in the tree has a selected operand
         /\ Len(Op.SelectedOperands) > 0
      THEN IF Len(Op.SelectedOperands) = 1
           THEN Op.SelectedOperands[Len(Op.SelectedOperands)]
           ELSE PushDownStart(A, S, Op.SelectedOperands[1], OuterOp)
      ELSE Start

\* A variant without the descent into the left operand: the range starts at
\* the first selected operand of the candidate itself.
getBinaryOperatorRangeNoDescent(A, S, N) ==
  LET Op == parse(A, S, ignoreImplicit(A, S, N))
  IN  IF ~Op.ok \/ ~associative(Op) \/ crossesMacroBoundary(A, Op)
         \/ Len(Op.SelectedOperands) # 2
      THEN InvalidRange
      ELSE LET Start == Op.SelectedOperands[1]
               End == Op.SelectedOperands[Len(Op.SelectedOperands)]
           IN  [valid |-> TRUE,
                b |-> toHalfOpenFileRange(getSourceRange(A, Start)).b,
                e |-> toHalfOpenFileRange(getSourceRange(A, End)).e]

getBinaryOperatorRange(A, S, N) ==
  LET Op == parse(A, S, ignoreImplicit(A, S, N))
  IN  IF ~Op.ok \/ ~associative(Op) \/ crossesMacroBoundary(A, Op)
         \/ Len(Op.SelectedOperands) # 2
      THEN InvalidRange
      ELSE LET Start == PushDownStart(A, S, Op.SelectedOperands[1], Op.Kind)
               End == Op.SelectedOperands[Len(Op.SelectedOperands)]
           IN  [valid |-> TRUE,
                b |-> toHalfOpenFileRange(getSourceRange(A, Start)).b,
                e |-> toHalfOpenFileRange(getSourceRange(A, End)).e]

\* ExtractionContext::getExtractionChars
getExtractionChars(A, Ctx) ==
  LET BinaryOperatorRange == getBinaryOperatorRange(A, Ctx.Tree, Ctx.ExprNode)
  IN  IF BinaryOperatorRange.valid THEN BinaryOperatorRange
      ELSE LET r == toHalfOpenFileRange(getSourceRange(A, Ctx.Expr))
           IN  [valid |-> TRUE, b |-> r.b, e |-> r.e]

(***************************************************************************)
(* getCallExpr, childExprIsDisallowedStmt, eligibleForExtraction,          *)
(* computeExtractedExpr                                                    *)
(***************************************************************************)
getCallExpr(A, DeclRef) ==
  LET MaybeCallee == outerImplicit(A, DeclRef)
      MaybeCall == Parent(A, MaybeCallee)
  IN  IF MaybeCall = 0 THEN 0
      ELSE IF A[MaybeCall].kind \notin {"CallExpr", "CXXOperatorCallExpr"} THEN 0
      ELSE IF A[MaybeCallee].role # "callee" THEN 0
      ELSE MaybeCall

\* A variant of childExprIsDisallowedStmt that refuses every child of a
\* loop, a branch or a case label.
childExprIsDisallowedStmtAnyChild(A, Outer, Inner) ==
  IF Outer = 0 \/ Inner = 0 THEN FALSE
  ELSE A[Outer].kind \in {"CaseStmt", "DefaultStmt", "WhileStmt", "DoStmt",
                          "ForStmt", "CXXForRangeStmt", "IfStmt"}

childExprIsDisallowedStmt(A, Outer, Inner) ==
  IF Outer = 0 \/ Inner = 0 THEN FALSE
  ELSE IF A[Outer].kind \in {"CaseStmt", "DefaultStmt"} THEN TRUE
  ELSE IF A[Outer].kind \in {"WhileStmt", "DoStmt", "ForStmt", "CXXForRangeStmt"}
       THEN A[Inner].role = "body"
  ELSE IF A[Outer].kind = "IfStmt" THEN A[Inner].role \in {"then", "else"}
  ELSE FALSE

\* A variant of IsFullySelected that looks at the coverage of the node
\* itself only.
IsFullySelectedRootOnly(A, S, N) == Selected(A, S, N) = "Complete"

RECURSIVE IsFullySelected(_, _, _)
IsFullySelected(A, S, N) ==
  /\ ~("invalidRange" \notin A[N].flags /\ Selected(A, S, N) # "Complete")
  /\ \A i \in 1..Len(Children(A, S, N)) :
       IsFullySelected(A, S, Children(A, S, N)[i])

eligibleForExtraction(A, S, N) ==
  LET BinOp == parse(A, S, N)
      IsBinOp == BinOp.ok
      OuterImplicit == outerImplicit(A, N)
      Par == Parent(A, OuterImplicit)
      \* E names the child of Par in the given role (getRHS, getInit)
      ExprIsFullySelectedTargetNode(role) ==
        IF A[OuterImplicit].role # role THEN FALSE
        ELSE IF ~IsBinOp THEN TRUE
        ELSE IsFullySelected(A, S, N)
  IN  IF ~IsExpr(A, N) THEN FALSE
      ELSE IF A[N].type \in {"null", "void"} THEN FALSE
      ELSE IF A[N].kind = "DeclRefExpr" THEN FALSE
      ELSE IF A[N].kind = "MemberExpr" /\ "implicitThis" \in A[N].flags THEN FALSE
      ELSE IF IsBinOp /\ isAssignmentOp(BinOp.Kind) THEN FALSE
      ELSE IF Par = 0 THEN FALSE
      ELSE IF childExprIsDisallowedStmt(A, IF IsStmt(A, Par) THEN Par ELSE 0,
                                        IF IsExpr(A, OuterImplicit)
                                        THEN OuterImplicit ELSE 0)
           THEN FALSE
      ELSE IF A[Par].kind = "BinaryOperator" /\ isAssignmentOp(A[Par].op)
              /\ ExprIsFullySelectedTargetNode("rhs")
           THEN FALSE
      ELSE IF A[N].kind = "LambdaExpr" THEN Selected(A, S, N) = "Complete"
      ELSE IF IsVarDecl(A, Par) /\ "initCapture" \notin A[Par].flags
              /\ ExprIsFullySelectedTargetNode("init")
           THEN FALSE
      ELSE TRUE

computeExtractedExpr(A, S, N) ==
  IF N = 0 THEN 0
  ELSE IF ~IsExpr(A, N) THEN 0
  ELSE LET Call == IF A[N].kind \in {"DeclRefExpr", "MemberExpr"}
                   THEN getCallExpr(A, N) ELSE 0
           TargetNode == IF Call # 0 THEN Call ELSE N
       IN  IF A[N].kind = "BinaryOperator" /\ A[N].op = "Assign" THEN 0
           ELSE IF ~eligibleForExtraction(A, S, TargetNode) THEN 0
           ELSE TargetNode

(***************************************************************************)
(* Edits.  A tooling::Replacement is (file, offset, length, text); the     *)
(* text is kept in parts.  tooling::Replacements is kept as the sequence   *)
(* of its replacements ordered by offset.                                  *)
(***************************************************************************)
MainFile == "main.cpp"

\* SourceManager::getFileOffset of a file location
getFileOffset(loc) == loc

\* toSourceCode: the text of a half-open range
toSourceCode(Text, R) == SubSeq(Text, R.b + 1, R.e)

\* ExtractionContext::replaceWithVar
replaceWithVar(Chars, VarName) ==
  LET ExtractionLength == getFileOffset(Chars.e) - getFileOffset(Chars.b)
  IN  [FilePath |-> MainFile, Offset |-> getFileOffset(Chars.b),
       Length |-> ExtractionLength,
       Text |-> [type |-> "", name |-> VarName, init |-> <<>>, semi |-> FALSE]]

\* A variant of insertDeclaration that inserts at the end of the insertion
\* point statement instead of its start.
insertDeclarationAtEnd(A, Text, Ctx, VarName, InitializerChars, AddSemicolon) ==
  LET ExtractionCode == toSourceCode(Text, InitializerChars)
      InsertionLoc ==
        toHalfOpenFileRange(getSourceRange(A, Ctx.InsertionPoint)).e
  IN  [FilePath |-> MainFile, Offset |-> getFileOffset(InsertionLoc),
       Length |-> 0,
       Text |-> [type |-> Ctx.VarType, name |-> VarName,
                 init |-> ExtractionCode, semi |-> AddSemicolon]]

\* ExtractionContext::insertDeclaration (with a non-null InsertionPoint and
\* a non-null VarType)
insertDeclaration(A, Text, Ctx, VarName, InitializerChars, AddSemicolon) ==
  LET ExtractionCode == toSourceCode(Text, InitializerChars)
      InsertionLoc ==
        toHalfOpenFileRange(getSourceRange(A, Ctx.InsertionPoint)).b
  IN  [FilePath |-> MainFile, Offset |-> getFileOffset(InsertionLoc),
       Length |-> 0,
       Text |-> [type |-> Ctx.VarType, name |-> VarName,
                 init |-> ExtractionCode, semi |-> AddSemicolon]]

\* tooling::Range::overlapsWith
overlapsWith(R1, R2) ==
  /\ R1.Offset + R1.Length > R2.Offset
  /\ R1.Offset < R2.Offset + R2.Length

\* tooling::Replacements::add: a replacement in another file, one that
\* overlaps a replacement of the set, or an insertion at the offset of
\* another insertion with another text, is refused with an error
ReplacementsAdd(Result, R) ==
  LET conflict(I) ==
        \/ R.FilePath # I.FilePath
        \/ overlapsWith(R, I)
        \/ (R.Offset = I.Offset /\ R.Length = 0 /\ I.Length = 0
            /\ R.Text # I.Text)
      before(I) == I.Offset < R.Offset \/ (I.Offset = R.Offset /\ I.Length = 0)
      notBefore(I) == ~before(I)
  IN  IF \E i \in 1..Len(Result) : conflict(Result[i])
      THEN [err |-> TRUE, set |-> Result]
      ELSE [err |-> FALSE,
            set |-> SelectSeq(Result, before) \o <<R>>
                    \o SelectSeq(Result, notBefore)]

(***************************************************************************)
(* ExtractVariable::prepare and ExtractVariable::apply                     *)
(***************************************************************************)
\* What one prepare call computes from its selection alone: the candidate
\* computeExtractedExpr finds under the common ancestor (0 when none) and
\* the context built for it.
Request(A, CPlusPlus11, Sel) ==
  LET N == computeExtractedExpr(A, Sel, commonAncestor(A, Sel))
  IN  [N |-> N,
       Ctx |-> IF N # 0 THEN ExtractionContext(A, CPlusPlus11, Sel, N)
               ELSE NoTarget]

\* the members of a sequence
Elements(seq) == {seq[i] : i \in DOMAIN seq}

\* Request, evaluated once per snapshot and selection
Requests ==
  [S \in Elements(Snapshots) |->
     [Sel \in Selections(S) |-> Request(S.nodes, S.CPlusPlus11, Sel)] @@ <<>>]
  @@ <<>>

\* A variant of prepare that returns the verdict of the context it finds in
\* Target on entry.
prepareOldVerdict(Rq, Held, Sel) ==
  IF Sel[1] = Sel[2]
  THEN [Target |-> Held, ret |-> FALSE]
  ELSE LET NewTarget == IF Rq.N # 0 THEN Rq.Ctx ELSE Held
       IN  [Target |-> NewTarget, ret |-> Held.held /\ Held.Extractable]

\* the state prepare leaves behind and the value it returns, from the
\* context Held it finds in Target, the selection Sel it is given and what
\* that selection yields (Rq)
prepare(Rq, Held, Sel) ==
  IF Sel[1] = Sel[2]
  THEN [Target |-> Held, ret |-> FALSE]
  ELSE LET NewTarget == IF Rq.N # 0 THEN Rq.Ctx ELSE Held
       IN  [Target |-> NewTarget,
            ret |-> NewTarget.held /\ NewTarget.Extractable]

NoResult == [status |-> "none", edits |-> <<>>]

\* What dereferencing a null pointer can do: the process dies, or the call
\* returns an edit set of no defined content.
Undefined ==
  {[status |-> "crashed", edits |-> <<>>], [status |-> "garbage", edits |-> <<>>]}

\* A variant of apply that returns the declaration alone when the candidate
\* is an expression statement.
applyDroppingSubstitution(A, Text, Held) ==
  IF ~Held.held \/ Held.InsertionPoint = 0 \/ Held.VarType = "null"
  THEN Undefined
  ELSE
    LET VarName == "placeholder"
        Range == getExtractionChars(A, Held)
        OuterImplicit == outerImplicit(A, Held.ExprNode)
        IsExprStmt == /\ IsStmt(A, Parent(A, OuterImplicit))
                      /\ A[Parent(A, OuterImplicit)].kind = "CompoundStmt"
        first == ReplacementsAdd(<<>>,
                   insertDeclaration(A, Text, Held, VarName, Range, ~IsExprStmt))
        second == ReplacementsAdd(first.set, replaceWithVar(Range, VarName))
    IN  IF first.err THEN {[status |-> "error", edits |-> <<>>]}
        ELSE IF IsExprStmt THEN {[status |-> "edits", edits |-> first.set]}
        ELSE IF second.err THEN {[status |-> "error", edits |-> <<>>]}
        ELSE {[status |-> "edits", edits |-> second.set]}

\* the results apply can return on the context Held it finds in Target
apply(A, Text, Held) ==
  IF ~Held.held THEN Undefined                  \* Target->... on a null Target
  ELSE
    LET VarName == "placeholder"
        Range == getExtractionChars(A, Held)
        OuterImplicit == outerImplicit(A, Held.ExprNode)
        IsExprStmt == /\ IsStmt(A, Parent(A, OuterImplicit))
                      /\ A[Parent(A, OuterImplicit)].kind = "CompoundStmt"
    IN  IF Held.InsertionPoint = 0 THEN Undefined     \* InsertionPoint->...
        ELSE IF Held.VarType = "null" THEN Undefined    \* printType of no type
        ELSE
          LET first == ReplacementsAdd(<<>>,
                         insertDeclaration(A, Text, Held, VarName, Range,
                                           ~IsExprStmt))
              second == ReplacementsAdd(first.set,
                          replaceWithVar(Range,
                                         IF IsExprStmt THEN "" ELSE VarName))
          IN  IF first.err THEN {[status |-> "error", edits |-> <<>>]}
              ELSE IF second.err THEN {[status |-> "error", edits |-> <<>>]}
              ELSE {[status |-> "edits", edits |-> second.set]}

(***************************************************************************)
(* The state machine: one ExtractVariable instance and its host.           *)
(***************************************************************************)
VARIABLES
  snap,      \* the AST snapshot the host works on
  Target,    \* ExtractVariable::Target
  Inputs,    \* the selection of the last prepare call
  verdict,   \* what the last prepare call returned
  result,    \* what the last apply call returned, "none" since a prepare
  op,        \* the last call: "init", "prepare" or "apply"
  repeated,  \* the last prepare call came right after a prepare call with
             \* the same selection
  calls      \* number of calls made

vars == <<snap, Target, Inputs, verdict, result, op, repeated, calls>>

AST == snap.nodes
Source == snap.text

Init ==
  /\ snap \in Elements(Snapshots)
  /\ Target = NoTarget
  /\ Inputs = <<0, 0>>
  /\ verdict = FALSE
  /\ result = NoResult
  /\ op = "init"
  /\ repeated = FALSE
  /\ calls = 0

Prepare(S) ==
  /\ calls < MaxCalls
  /\ LET r == prepare(Requests[snap][S], Target, S)
     IN  /\ Target' = r.Target
         /\ verdict' = r.ret
  /\ Inputs' = S
  /\ result' = NoResult
  /\ op' = "prepare"
  /\ repeated' = (op = "prepare" /\ S = Inputs)
  /\ calls' = calls + 1
  /\ UNCHANGED snap

Apply ==
  /\ calls < MaxCalls
  /\ op # "init"
  /\ result' \in apply(AST, Source, Target)
  /\ op' = "apply"
  /\ calls' = calls + 1
  /\ UNCHANGED <<snap, Target, Inputs, verdict, repeated>>

Next ==
  \/ \E S \in Selections(snap) : Prepare(S)
  \/ Apply

Spec == Init /\ [][Next]_vars

(***************************************************************************)
(* Properties.  Shorthands for the snapshot of the current behaviour.      *)
(***************************************************************************)
Name == snap.name
LangCPlusPlus11 == snap.CPlusPlus11

\* what a prepare call with the last selection computes on its own
Fresh == Requests[snap][Inputs]
Extracts(Rq) == Rq.N # 0 /\ Rq.Ctx.Extractable
FreshVerdict == Inputs[1] # Inputs[2] /\ Extracts(Fresh)

\* the declaration-insertion edit and the substitution edit of an edit set
IsInsertion(e) == e.Length = 0 /\ e.Text.type # ""
IsSubstitution(e) == e.Length > 0 /\ e.Text.type = ""
Insertions(es) == {i \in 1..Len(es) : IsInsertion(es[i])}
Substitutions(es) == {i \in 1..Len(es) : IsSubstitution(es[i])}

\* C1: after every prepare call, the verdict is true iff the selection just
\* given is non-empty, yields a candidate, and the context built for that
\* candidate is extractable, whatever context an earlier call left behind.
C1_VerdictOfGivenSelection ==
  op = "prepare" => (verdict <=> FreshVerdict)

\* C2: a held context is the one its constructor built, and its flag is
\* true iff computeInsertionPoint gave a statement and computeVariableType
\* gave a type; no later call changes it.
C2_ExtractableIffPointAndType ==
  Target.held =>
    /\ Target = ExtractionContext(AST, LangCPlusPlus11, Target.Tree, Target.ExprNode)
    /\ Target.Extractable <=>
         /\ computeInsertionPoint(AST, computeReferencedDecls(AST, Target.Expr),
                                  Target.ExprNode) # 0
         /\ computeVariableType(AST, LangCPlusPlus11, Target.Expr) # "null"

\* a context that has an insertion point and no type is held, not
\* extractable, and has been through an apply call
C2_Witness ==
  /\ op = "apply" /\ Target.held
  /\ Target.InsertionPoint # 0 /\ Target.VarType = "null"
  /\ ~Target.Extractable

\* C3: in every edit set apply returns, the declaration is inserted with
\* length zero at the start of the insertion point statement, the
\* substitution covers the extraction range, the insertion offset is at
\* most the start of the extraction range, the two do not overlap, and both
\* are in the same file.
C3_EditsDoNotOverlap ==
  (op = "apply" /\ result.status = "edits") =>
    \E i \in Insertions(result.edits), j \in Substitutions(result.edits) :
      LET ins == result.edits[i]
          sub == result.edits[j]
          Range == getExtractionChars(AST, Target)
      IN  /\ ins.Offset = AST[Target.InsertionPoint].b
          /\ sub.Offset = Range.b /\ sub.Offset + sub.Length = Range.e
          /\ ins.Offset <= sub.Offset
          /\ ~overlapsWith(ins, sub) /\ ~overlapsWith(sub, ins)
          /\ ins.FilePath = sub.FilePath

\* apply has returned the edits of a candidate in the middle of a statement
C3_Witness ==
  /\ op = "apply" /\ verdict /\ result.status = "edits"
  /\ \E i \in Insertions(result.edits), j \in Substitutions(result.edits) :
       result.edits[i].Offset < result.edits[j].Offset

C5_ApplyRefusesAfterFalsePrepare ==
  (op = "apply" /\ ~verdict) => result.status # "edits"

\* C6: a prepare call right after a prepare call with the same selection
\* returns the same verdict, and leaves apply with the same results.
C6_PrepareIdempotent ==
  [][(op = "prepare" /\ op' = "prepare" /\ Inputs' = Inputs) =>
       /\ verdict' = verdict
       /\ apply(AST, Source, Target') = apply(AST, Source, Target)]_vars

\* the same selection was prepared twice, both verdicts were true, and
\* apply then returned the edits
C6_Witness ==
  /\ op = "apply" /\ repeated /\ verdict /\ Target.Tree = Inputs
  /\ result.status = "edits"

\* m is n or an ancestor of n (nodes are numbered in pre-order)
Encloses(A, m, n) == m <= n /\ A[m].b <= A[n].b /\ A[n].e <= A[m].e

\* the statement of a block that holds n: the nearest ancestor-or-self of n
\* whose parent is a CompoundStmt (0 when there is none)
StmtOfBlock(A, n) ==
  LET cand == {m \in 1..Len(A) : /\ Encloses(A, m, n) /\ Parent(A, m) # 0
                                 /\ A[Parent(A, m)].kind = "CompoundStmt"}
  IN  IF cand = {} THEN 0 ELSE CHOOSE m \in cand : \A k \in cand : k <= m

\* the nodes from n up to the statement of the block that holds n
PathToBlock(A, n) ==
  {m \in 1..Len(A) : Encloses(A, m, n) /\ StmtOfBlock(A, n) <= m}

\* the variable declarations of the snapshot that the candidate references
LocalDecls(A, Ctx) ==
  {v \in 1..Len(A) :
     /\ A[v].kind \in VarDeclKinds
     /\ \E i \in 1..Len(Ctx.ReferencedDecls) : Ctx.ReferencedDecls[i] = A[v].decl}

\* a referenced variable is declared by an earlier statement of the block
\* that holds the candidate's statement, and the candidate is an operand
\* nested in expressions only inside that statement
DeclaredEarlierInBlock(A, Ctx) ==
  LET s == StmtOfBlock(A, Ctx.ExprNode)
  IN  /\ s # 0
      /\ "macroBegin" \notin A[Parent(A, s)].flags
      /\ \A m \in PathToBlock(A, Ctx.ExprNode) :
           IsExpr(A, m) /\ A[Parent(A, m)].kind # "ParmVarDecl"
      /\ LocalDecls(A, Ctx) # {}
      /\ \A v \in LocalDecls(A, Ctx) :
           /\ A[Parent(A, v)].kind = "DeclStmt"
           /\ Parent(A, Parent(A, v)) = Parent(A, s)
           /\ A[v].e <= A[s].b

\* a referenced variable is declared inside a statement the candidate is
\* nested in, below the block
DeclaredInsidePath(A, Ctx) ==
  \E v \in LocalDecls(A, Ctx), m \in PathToBlock(A, Ctx.ExprNode) :
    IsStmt(A, m) /\ Encloses(A, m, v)

C8_PointOutsideMacro ==
  (Target.held /\ Target.InsertionPoint # 0) =>
    LET P == Parent(AST, Target.InsertionPoint)
    IN  /\ P # 0 /\ AST[P].kind = "CompoundStmt"
        /\ "macroBegin" \notin AST[P].flags
        /\ "macroBegin" \notin AST[Target.InsertionPoint].flags

\* the operands of the operator chains of the snapshot
Operands(A) ==
  {n \in 1..Len(A) :
     /\ A[n].role \in {"lhs", "rhs", "arg0", "arg1"}
     /\ A[n].kind \notin {"BinaryOperator", "CXXOperatorCallExpr"}}

\* the selection covers exactly a run of two or more operands
IsOperandRun(A, S) ==
  \E m \in Operands(A), n \in Operands(A) :
    A[m].b = S[1] /\ A[n].e = S[2] /\ A[m].e <= A[n].b

ChainNames == {"chain-init", "chain-stmt", "chain-opcall"}

\* C9: when the selection covers exactly a run of operands of a chain of
\* one associative operator and yields a candidate, the extraction range
\* is the selection: from the first selected operand to the last.
C9_RangeOfOperandRun ==
  (/\ op = "prepare" /\ Name \in ChainNames
   /\ IsOperandRun(AST, Inputs) /\ Fresh.N # 0) =>
    /\ Target.Tree = Inputs
    /\ getExtractionChars(AST, Target).b = Inputs[1]
    /\ getExtractionChars(AST, Target).e = Inputs[2]

\* a run strictly inside the chain (as b + c in a + b + c + d) has been
\* prepared: the candidate is a wider operator node than the run
C9_Witness ==
  /\ op = "prepare" /\ Name \in ChainNames /\ verdict
  /\ IsOperandRun(AST, Inputs) /\ Target.Tree = Inputs
  /\ AST[Target.ExprNode].b < Inputs[1]
  /\ Inputs[2] < snap.hi

\* C10: unless the extraction range is the whole expression statement, the
\* substitution writes the variable name and the declaration ends with a
\* semicolon.
C10_EmptyTextOnlyForWholeStatement ==
  (op = "apply" /\ result.status = "edits") =>
    \A i \in Insertions(result.edits), j \in Substitutions(result.edits) :
      LET ins == result.edits[i]
          sub == result.edits[j]
          s == StmtOfBlock(AST, Target.ExprNode)
          whole == /\ s # 0
                   /\ sub.Offset = AST[s].b
                   /\ sub.Offset + sub.Length = AST[s].e
      IN  ~whole => (sub.Text.name = "placeholder" /\ ins.Text.semi)

(***************************************************************************)
(* Eligibility rules.  The candidate of a selection is the node that       *)
(* computeExtractedExpr hands to eligibleForExtraction.                    *)
(***************************************************************************)
TargetNodeOf(A, S) ==
  LET N == commonAncestor(A, S)
  IN  IF N = 0 \/ ~IsExpr(A, N) THEN 0
      ELSE IF A[N].kind \in {"DeclRefExpr", "MemberExpr"} /\ getCallExpr(A, N) # 0
           THEN getCallExpr(A, N)
           ELSE N

\* every token of node n lies inside the selection S
Covers(A, S, n) == S[1] <= A[n].b /\ A[n].e <= S[2]

\* n is an operator application: a built-in binary operator or an infix
\* call of an overloaded one
IsChain(A, n) ==
  \/ A[n].kind = "BinaryOperator"
  \/ (A[n].kind = "CXXOperatorCallExpr" /\ "infix" \in A[n].flags)

\* every node of the selection tree under n (n included) is Complete
SubtreeComplete(A, S, n) ==
  \A m \in 1..Len(A) :
    (Encloses(A, n, m) /\ InTree(A, S, m)) => Selected(A, S, m) = "Complete"

\* "fully selected": for an operator chain every node of its selection
\* subtree is Complete; any other candidate lies inside the selection
FullySelected(A, S, n) ==
  IF IsChain(A, n) THEN SubtreeComplete(A, S, n) ELSE Covers(A, S, n)

\* n is none of: void-typed, a bare name, a member of an implicit this, an
\* assignment, a closure literal
PlainValue(A, n) ==
  /\ A[n].type \notin {"null", "void"}
  /\ A[n].kind \notin {"DeclRefExpr", "LambdaExpr"}
  /\ ~(A[n].kind = "MemberExpr" /\ "implicitThis" \in A[n].flags)
  /\ ~(A[n].kind \in {"BinaryOperator", "CXXOperatorCallExpr"}
       /\ isAssignmentOp(A[n].op))

\* the candidate T is the initializer of the declared variable P
InitializerOf(A, T, P) ==
  /\ T # 0
  /\ P = Parent(A, outerImplicit(A, T))
  /\ IsVarDecl(A, P)
  /\ A[outerImplicit(A, T)].role = "init"

\* C11: a candidate of any expression kind, closure literals included, that
\* is the fully-selected initializer of a declared variable other than a
\* closure init-capture is rejected by eligibleForExtraction; the
\* fully-selected initializer of an init-capture is not rejected for being
\* an initializer.
C11_InitializerRejected ==
  (op = "prepare" /\ Inputs[1] # Inputs[2]) =>
    \A P \in 1..Len(AST) :
      (/\ InitializerOf(AST, TargetNodeOf(AST, Inputs), P)
       /\ FullySelected(AST, Inputs, TargetNodeOf(AST, Inputs))) =>
        IF "initCapture" \in AST[P].flags
        THEN PlainValue(AST, TargetNodeOf(AST, Inputs)) =>
               eligibleForExtraction(AST, Inputs, TargetNodeOf(AST, Inputs))
        ELSE ~eligibleForExtraction(AST, Inputs, TargetNodeOf(AST, Inputs))

\* the candidate T is the right-hand side of the built-in assignment P
RhsOf(A, T, P) ==
  /\ T # 0
  /\ P = Parent(A, outerImplicit(A, T))
  /\ P # 0
  /\ A[P].kind = "BinaryOperator" /\ isAssignmentOp(A[P].op)
  /\ A[outerImplicit(A, T)].role = "rhs"

\* the parent of the outermost-implicit node of the candidate T, when T is
\* the right-hand side of a built-in assignment
AssignmentsOf(A, T) ==
  IF T = 0 THEN {}
  ELSE {P \in {Parent(A, outerImplicit(A, T))} \ {0} : RhsOf(A, T, P)}

\* the rule of C12 as stated, for the candidate T of selection S
RhsRuleAsStated(A, S, T) ==
  (AssignmentsOf(A, T) # {} /\ PlainValue(A, T)) =>
    (~eligibleForExtraction(A, S, T) <=> FullySelected(A, S, T))

\* the rule of C12 as the code has it, for the candidate T of selection S;
\* N is the node computeExtractedExpr settles on
RhsRule(A, S, N, T) ==
  (AssignmentsOf(A, T) # {} /\ PlainValue(A, T)) =>
    /\ ~eligibleForExtraction(A, S, T)
         <=> (~IsChain(A, T) \/ SubtreeComplete(A, S, T))
    /\ N # 0 <=> eligibleForExtraction(A, S, T)

\* C12 as stated: a candidate that is the right-hand side of an assignment
\* (and passes the rules before this one) is rejected exactly when it is
\* fully selected; a partially selected right-hand side is not rejected.
C12_RhsRejectedIffFullySelected ==
  (op = "prepare" /\ Inputs[1] # Inputs[2]) =>
    RhsRuleAsStated(AST, Inputs, TargetNodeOf(AST, Inputs))

\* C12, amended: a candidate that is the right-hand side of an assignment
\* (and passes the rules before this one) is rejected exactly when it is
\* not an operator chain, or is an operator chain whose selection subtree
\* is Complete in every node; only a partially selected operator chain is
\* let through.
C12_RhsRejectedUnlessPartialChain ==
  (op = "prepare" /\ Inputs[1] # Inputs[2]) =>
    RhsRule(AST, Inputs, Fresh.N, TargetNodeOf(AST, Inputs))

\* a call on the right-hand side, selected in part only, has been refused
C12_Witness ==
  /\ op = "prepare" /\ Inputs[1] # Inputs[2] /\ ~verdict
  /\ Name = "assign-call"
  /\ RhsOf(AST, TargetNodeOf(AST, Inputs), Parent(AST, TargetNodeOf(AST, Inputs)))
  /\ AST[TargetNodeOf(AST, Inputs)].kind = "CallExpr"
  /\ ~Covers(AST, Inputs, TargetNodeOf(AST, Inputs))

\* the node O, a child of P, is the governed body of a loop, a branch of an
\* if statement, or a child of a case label
Discarded(A, O, P) ==
  \/ (A[P].kind \in {"WhileStmt", "DoStmt", "ForStmt", "CXXForRangeStmt"}
      /\ A[O].role = "body")
  \/ (A[P].kind = "IfStmt" /\ A[O].role \in {"then", "else"})
  \/ A[P].kind \in {"CaseStmt", "DefaultStmt"}

\* the rule of C13 for the candidate T of selection S, whose
\* outermost-implicit node O has parent P; N is the node
\* computeExtractedExpr settles on
DiscardedValueRule(A, S, N, T, O, P) ==
  PlainValue(A, T) =>
    IF Discarded(A, O, P)
    THEN /\ ~eligibleForExtraction(A, S, T)
         /\ N = 0
    ELSE (/\ ~RhsOf(A, T, P)
          /\ ~InitializerOf(A, T, P)) =>
           /\ eligibleForExtraction(A, S, T)
           /\ N = T

\* the rule holds for the candidate T under its parent, when it has one
DiscardedValueRuleAt(A, S, N, T) ==
  T # 0 =>
    \A P \in {Parent(A, outerImplicit(A, T))} \ {0} :
      DiscardedValueRule(A, S, N, T, outerImplicit(A, T), P)

\* C13: a candidate (that passes the rules before this one) is rejected when
\* its outermost-implicit node is the governed body of a while, do, for or
\* if statement or a child of a case label, and is not rejected for any
\* other parent (condition and increment positions, enclosing expressions)
\* unless it is a right-hand side or an initializer.
C13_DiscardedValueRejected ==
  (op = "prepare" /\ Inputs[1] # Inputs[2]) =>
    DiscardedValueRuleAt(AST, Inputs, Fresh.N, TargetNodeOf(AST, Inputs))

\* a branch of an if statement has been refused as a candidate
C13_Witness ==
  /\ op = "prepare" /\ Inputs[1] # Inputs[2] /\ Fresh.N = 0
  /\ Name = "if-else"
  /\ TargetNodeOf(AST, Inputs) # 0
  /\ AST[outerImplicit(AST, TargetNodeOf(AST, Inputs))].role = "else"

\* n is void-typed, a bare reference to a declared name, a member access on
\* an implicit this, or an application of an assignment operator
Unwanted(A, n) ==
  \/ A[n].type = "void"
  \/ A[n].kind = "DeclRefExpr"
  \/ (A[n].kind = "MemberExpr" /\ "implicitThis" \in A[n].flags)
  \/ (IsChain(A, n) /\ isAssignmentOp(A[n].op))

\* C14: prepare returns false whenever the candidate, after retargeting a
\* callee to its call, is void-typed, a bare name, a member access on an
\* implicit this, or an application of an assignment operator.
C14_PrepareRefusesUnwanted ==
  (/\ op = "prepare" /\ Inputs[1] # Inputs[2]
   /\ TargetNodeOf(AST, Inputs) # 0
   /\ Unwanted(AST, TargetNodeOf(AST, Inputs))) => ~verdict

\* the statements on the ancestor path from node n up to and including p
StmtsUpTo(A, n, p) ==
  {m \in 1..Len(A) : Encloses(A, m, n) /\ Encloses(A, p, m) /\ IsStmt(A, m)}

\* C15: no statement on the path from the candidate up to and including a
\* returned insertion point holds the whole range of a referenced
\* declaration; when a statement the walk goes through on its way to a
\* block holds one, there is no insertion point at all.
C15_NoReferencedDeclInsidePath ==
  Target.held =>
    /\ Target.InsertionPoint # 0 =>
         \A v \in LocalDecls(AST, Target) :
           \A m \in StmtsUpTo(AST, Target.ExprNode, Target.InsertionPoint) :
             ~(AST[m].b <= AST[v].b /\ AST[v].e <= AST[m].e)
    /\ DeclaredInsidePath(AST, Target) =>
         /\ Target.InsertionPoint = 0
         /\ ~Target.Extractable

\* the candidate i + 1 of  for (int i = 0; ; ) h(i + 1);  got no insertion
\* point
C15_Witness ==
  /\ op = "prepare" /\ Target.held /\ Target.Tree = Inputs
  /\ Name = "scope-for"
  /\ AST[Target.ExprNode].kind = "BinaryOperator"
  /\ LocalDecls(AST, Target) # {}
  /\ Target.InsertionPoint = 0 /\ ~verdict

\* the nearest ancestor-or-self of n whose parent is a statement block that
\* does not start inside a macro (0 when there is none)
NearestInUsableBlock(A, n) ==
  LET cand == {m \in 1..Len(A) :
                 /\ Encloses(A, m, n) /\ Parent(A, m) # 0
                 /\ A[Parent(A, m)].kind = "CompoundStmt"
                 /\ "macroBegin" \notin A[Parent(A, m)].flags}
  IN  IF cand = {} THEN 0 ELSE CHOOSE m \in cand : \A k \in cand : k <= m

\* the kinds of node the walk ascends through
Ascendable(A, m) ==
  \/ IsExpr(A, m)
  \/ A[m].kind \in {"AttributedStmt", "CompoundStmt", "CXXForRangeStmt",
                     "DeclStmt", "DoStmt", "ForStmt", "IfStmt", "ReturnStmt",
                     "WhileStmt"}
  \/ IsVarDecl(A, m)

\* the nodes from n up to p (up to the root when p is 0) that the walk does
\* not ascend through
Blockers(A, n, p) ==
  {m \in 1..Len(A) : /\ Encloses(A, m, n)
                      /\ (p = 0 \/ Encloses(A, p, m))
                      /\ (~Ascendable(A, m) \/ Parent(A, m) = 0)}

\* C16: a returned insertion point is the nearest ancestor-or-self of the
\* candidate whose parent is a usable statement block, and every node from
\* the candidate up to it is an expression, a statement of one of the nine
\* kinds or a variable declaration; when a node of another kind, or the
\* root, comes before such a block there is no insertion point and the
\* candidate is not extractable.  Each step of the walk moves to the parent,
\* which precedes the node, so the walk ends.
C16_NearestBlockStatement ==
  Target.held =>
    /\ Target.InsertionPoint # 0 =>
         /\ Target.InsertionPoint = NearestInUsableBlock(AST, Target.ExprNode)
         /\ Blockers(AST, Target.ExprNode, Target.InsertionPoint) = {}
    /\ Blockers(AST, Target.ExprNode,
                NearestInUsableBlock(AST, Target.ExprNode)) # {} =>
         /\ Target.InsertionPoint = 0
         /\ ~Target.Extractable
    /\ \A m \in 1..Len(AST) : Encloses(AST, m, Target.ExprNode) =>
         Parent(AST, m) < m

\* the argument a + 1 of  case 1: h(a + 1);  got no insertion point
C16_Witness ==
  /\ op = "prepare" /\ Target.held /\ Target.Tree = Inputs
  /\ Name = "switch"
  /\ \E m \in Blockers(AST, Target.ExprNode,
                         NearestInUsableBlock(AST, Target.ExprNode)) :
       AST[m].kind = "CaseStmt"
  /\ Target.InsertionPoint = 0 /\ ~verdict

(***************************************************************************)
(* Referenced declarations of a candidate that holds closures.             *)
(***************************************************************************)
\* m is n or a descendant of n
RECURSIVE Under(_, _, _)
Under(A, n, m) ==
  IF m = n THEN TRUE
  ELSE IF Parent(A, m) = 0 THEN FALSE
  ELSE Under(A, n, Parent(A, m))

\* the name references (DeclRefExpr nodes) under n
RefsUnder(A, n) ==
  {m \in 1..Len(A) : A[m].kind = "DeclRefExpr" /\ Under(A, n, m)}

\* m lies in the statement body of a closure literal that is n or under n
InBody(A, n, m) ==
  \E c \in 1..Len(A) :
    /\ A[c].role = "body" /\ Parent(A, c) # 0
    /\ A[Parent(A, c)].kind = "LambdaExpr"
    /\ Under(A, n, Parent(A, c)) /\ Under(A, c, m)

\* the set of entities computeReferencedDecls returned for the candidate
Returned(Ctx) == {Ctx.ReferencedDecls[i] : i \in 1..Len(Ctx.ReferencedDecls)}

\* the entities the source text under n names only inside closure bodies
NamedOnlyInBody(A, n) ==
  {A[m].decl : m \in {r \in RefsUnder(A, n) :
                        /\ "implicit" \notin A[r].flags /\ InBody(A, n, r)
                        /\ \A o \in RefsUnder(A, n) :
                             (A[o].decl = A[r].decl /\ "implicit" \notin A[o].flags)
                               => InBody(A, n, o)}}

\* the entities referenced under n outside every closure body: operands,
\* captures (written or implicit), capture initializers, template
\* parameters, return types, parameters and attributes
ReferencedOutsideBody(A, n) ==
  {A[m].decl : m \in {r \in RefsUnder(A, n) :
                        /\ ~InBody(A, n, r)
                        /\ "lambdaCallOperator" \notin A[r].flags}}

\* the call operators of closures invoked under n
CallOperators(A, n) ==
  {A[m].decl : m \in {r \in RefsUnder(A, n) :
                        "lambdaCallOperator" \in A[r].flags}}

\* C17 as stated: an entity that is referenced only inside a closure's
\* statement body is never returned, a closure's call operator is never
\* returned, and the entities referenced from captures, capture
\* initializers, template parameters, return type, parameters and
\* attributes are returned; the result is a (possibly empty) sequence.
C17_BodyReferencesNotReturned ==
  Target.held =>
    /\ NamedOnlyInBody(AST, Target.ExprNode) \cap Returned(Target) = {}
    /\ CallOperators(AST, Target.ExprNode) \cap Returned(Target) = {}
    /\ ReferencedOutsideBody(AST, Target.ExprNode) \subseteq Returned(Target)
    /\ Len(Target.ReferencedDecls) >= 0

\* C17, amended: an entity that is referenced only inside a closure's
\* statement body and that the closure does not capture is never returned,
\* a closure's call operator is never returned, and the entities the
\* closure captures (in writing or implicitly) or references from capture
\* initializers, template parameters, return type, parameters and
\* attributes are exactly the ones returned; the result is a (possibly
\* empty) sequence.
C17_UncapturedBodyReferencesNotReturned ==
  Target.held =>
    /\ (NamedOnlyInBody(AST, Target.ExprNode)
          \ ReferencedOutsideBody(AST, Target.ExprNode))
        \cap Returned(Target) = {}
    /\ CallOperators(AST, Target.ExprNode) \cap Returned(Target) = {}
    /\ ReferencedOutsideBody(AST, Target.ExprNode) = Returned(Target)
    /\ Len(Target.ReferencedDecls) >= 0

\* a closure that names b in its body only and captures it implicitly has
\* been analysed, and b was returned
C17_Witness ==
  /\ op = "prepare" /\ Target.held /\ Target.Tree = Inputs
  /\ AST[Target.ExprNode].kind = "LambdaExpr"
  /\ "b" \in NamedOnlyInBody(AST, Target.ExprNode)
  /\ "b" \in Returned(Target)

(***************************************************************************)
(* The extraction range.                                                   *)
(***************************************************************************)
\* the operand nodes of the operator application n
OperandsOf(A, n) ==
  {m \in 1..Len(A) : Parent(A, m) = n
                      /\ A[m].role \in {"lhs", "rhs", "arg0", "arg1"}}

\* the candidate of Ctx is not an operator application, or its operator is
\* not one of + * & | ^ && ||, or the selection does not touch exactly two
\* of its operands, or an operand comes from another file or macro than the
\* operator
NotAChain(A, Ctx) ==
  LET top == ignoreImplicit(A, Ctx.Tree, Ctx.ExprNode)
  IN  \/ ~IsChain(A, top)
      \/ A[top].op \notin {"Add", "Mul", "And", "Or", "Xor", "LAnd", "LOr"}
      \/ Cardinality({m \in OperandsOf(A, top) : InTree(A, Ctx.Tree, m)}) # 2
      \/ \E m \in OperandsOf(A, top) :
           InTree(A, Ctx.Tree, m) /\ A[m].fid # A[top].fid

\* the nodes under the candidate of Ctx that are reached from it through
\* implicit wrappers and applications of the candidate's own operator only
ReachedThroughSameOperator(A, Ctx) ==
  LET top == ignoreImplicit(A, Ctx.Tree, Ctx.ExprNode)
  IN  {m \in 1..Len(A) :
         /\ Under(A, top, m)
         /\ \A k \in 1..Len(A) :
              (Under(A, top, k) /\ Under(A, k, m) /\ k # m) =>
                \/ A[k].kind = "ImplicitCastExpr"
                \/ (IsChain(A, k) /\ A[k].op = A[top].op)}

\* C18: getExtractionChars returns the range of the whole candidate when the
\* candidate is not a binary operator, its operator is not associative, the
\* selection does not touch exactly two operands, or an operand lies in
\* another macro or file than the operator; otherwise the range lies inside
\* the candidate and starts at a node that the descent reached through
\* applications of the same operator only.
C18_WholeRangeUnlessChain ==
  Target.held =>
    /\ NotAChain(AST, Target) =>
         getExtractionChars(AST, Target) =
           [valid |-> TRUE, b |-> AST[Target.Expr].b, e |-> AST[Target.Expr].e]
    /\ AST[Target.Expr].b <= getExtractionChars(AST, Target).b
    /\ getExtractionChars(AST, Target).e <= AST[Target.Expr].e
    /\ \E m \in ReachedThroughSameOperator(AST, Target) :
         AST[m].b = getExtractionChars(AST, Target).b

\* in  1 - 2 - 3  with  2 - 3  selected the whole expression is the range
C18_Witness ==
  /\ op = "prepare" /\ Target.held /\ Target.Tree = Inputs
  /\ Name = "chain-sub"
  /\ AST[Target.ExprNode].b < Inputs[1]
  /\ Cardinality({m \in OperandsOf(AST, Target.ExprNode) :
                    InTree(AST, Inputs, m)}) = 2
  /\ getExtractionChars(AST, Target).b = AST[Target.ExprNode].b

====
